---- MODULE Spec2Model ----
(***************************************************************************)
(* Model of DocumentService (app/utils.py): create_documents and the       *)
(* helpers it drives (flush_section, looks_like_title,                     *)
(* strip_trailing_citations, should_join).                                 *)
(*                                                                         *)
(* A Python str is a sequence of one-character strings, so that strip,     *)
(* startswith, lower, splitlines and the section regex are computed        *)
(* character by character as the code computes them.                       *)
(***************************************************************************)
EXTENDS Naturals, Sequences, FiniteSets, TLC

----------------------------------------------------------------------------
(* Characters *)

UpperSeq == <<"A", "B", "C", "D", "E", "F", "G", "H", "I", "J", "K", "L", "M", "N", "O", "P", "Q", "R", "S", "T", "U", "V", "W", "X", "Y", "Z">>

LowerSeq == <<"a", "b", "c", "d", "e", "f", "g", "h", "i", "j", "k", "l", "m", "n", "o", "p", "q", "r", "s", "t", "u", "v", "w", "x", "y", "z">>

DigitSeq == <<"0", "1", "2", "3", "4", "5", "6", "7", "8", "9">>

\* The characters of the model in code-point order (what sorted() compares).
AsciiSeq == <<"\t", "\n", " ", "!", "\"", "'", ")", ",", "-">> \o <<".", "/">> \o DigitSeq \o <<":", ";", "?">> \o UpperSeq \o LowerSeq

Range(f) == { f[i] : i \in DOMAIN f }

Upper == Range(UpperSeq)

Lower == Range(LowerSeq)

Digit == Range(DigitSeq)

\* superscript two: str.isdigit accepts it, the regex classes \d and [0-9] do not;
\* it has no case and is not whitespace
SuperTwo == "²"

\* the characters str.isdigit accepts
StrIsDigit == Digit \cup {SuperTwo}

\* str.strip / rstrip / lstrip with no argument and the regex class \s
White == {" ", "\t", "\n"}

NL == "\n"

IndexIn(seq, c) == CHOOSE i \in DOMAIN seq : seq[i] = c

Ord(c) == IndexIn(AsciiSeq, c)

\* str.lower on one character
ToLower(c) == IF c \in Upper THEN LowerSeq[IndexIn(UpperSeq, c)] ELSE c

----------------------------------------------------------------------------
(* str methods *)

Min(S) == CHOOSE m \in S : \A n \in S : m <= n

Max(S) == CHOOSE m \in S : \A n \in S : n <= m

\* s[a..b] as a string (empty when a > b)
Slice(s, a, b) == IF a > b THEN <<>> ELSE SubSeq(s, a, b)

\* index of the first character not in White, Len(s)+1 when there is none
FirstNonWhite(s) == Min({ i \in 1..Len(s) : s[i] \notin White } \cup {Len(s) + 1})

\* index of the last character not in White, 0 when there is none
LastNonWhite(s) == Max({ i \in 1..Len(s) : s[i] \notin White } \cup {0})

LStrip(s) == Slice(s, FirstNonWhite(s), Len(s))

RStrip(s) == Slice(s, 1, LastNonWhite(s))

Strip(s) == Slice(s, FirstNonWhite(s), LastNonWhite(s))

StrLower(s) == [ i \in 1..Len(s) |-> ToLower(s[i]) ]

StartsWith(s, p) == Len(p) <= Len(s) /\ \A i \in 1..Len(p) : s[i] = p[i]

EndsWith(s, p) == Len(p) <= Len(s) /\ \A i \in 1..Len(p) : s[Len(s) - Len(p) + i] = p[i]

\* len(s.split()): the number of maximal runs of non-whitespace
WordCount(s) == Cardinality({ i \in 1..Len(s) : s[i] \notin White /\ (i = 1 \/ s[i - 1] \in White) })

\* sep.join(parts)
RECURSIVE Join(_, _)
Join(parts, sep) ==
  IF Len(parts) = 0 THEN <<>>
  ELSE IF Len(parts) = 1 THEN parts[1]
  ELSE parts[1] \o sep \o Join(Tail(parts), sep)

\* str.splitlines() for texts whose only line boundary is "\n": a trailing
\* newline opens no further line, and "" has no lines.
RECURSIVE SplitLines(_)
SplitLines(text) ==
  IF Len(text) = 0 THEN <<>>
  ELSE LET nls == { i \in 1..Len(text) : text[i] = NL }
       IN IF nls = {} THEN <<text>>
          ELSE LET k == Min(nls)
               IN <<Slice(text, 1, k - 1)>> \o SplitLines(Slice(text, k + 1, Len(text)))

\* a < b in Python's str order (code points, then length)
StrLess(a, b) ==
  \E k \in 1..(Len(b)) :
    /\ \A i \in 1..(k - 1) : i <= Len(a) /\ a[i] = b[i]
    /\ \/ k = Len(a) + 1
       \/ k <= Len(a) /\ Ord(a[k]) < Ord(b[k])

\* sorted(S) for a set of distinct strings
RECURSIVE Sorted(_)
Sorted(S) ==
  IF S = {} THEN <<>>
  ELSE LET m == CHOOSE x \in S : \A y \in S \ {x} : StrLess(x, y)
       IN <<m>> \o Sorted(S \ {m})

----------------------------------------------------------------------------
(* os.path *)

\* os.path.basename: what follows the last "/"
Basename(path) == Slice(path, Max({ i \in 1..Len(path) : path[i] = "/" } \cup {0}) + 1, Len(path))

\* os.path.splitext(name)[0]: cut at the last dot, unless only dots precede it
SplitextRoot(name) ==
  LET dots == { i \in 1..Len(name) : name[i] = "." }
  IN IF dots = {} THEN name
     ELSE LET k == Max(dots)
          IN IF \E j \in 1..(k - 1) : name[j] # "." THEN Slice(name, 1, k - 1) ELSE name

----------------------------------------------------------------------------
(* None and Optional[str] *)

None == [isNone |-> TRUE, val |-> <<>>]

Some(v) == [isNone |-> FALSE, val |-> v]

----------------------------------------------------------------------------
(* Program constants *)

\* looks_like_title: len(s) > 60
MaxTitleLen == 60

\* looks_like_title: len(s.split()) > 8
MaxTitleWords == 8

Citations == <<"c", "i", "t", "a", "t", "i", "o", "n", "s">>

Http == <<"h", "t", "t", "p", ":", "/", "/">>

Https == <<"h", "t", "t", "p", "s", ":", "/", "/">>

Www == <<"w", "w", "w", ".">>

\* prev.endswith(('.', '!', '?', '"', "'"))
TerminalPunct == {".", "!", "?", "\"", "'"}

\* s.endswith('.') or s.endswith(':') or s.endswith(';')
SentenceEnd == {".", ":", ";"}

----------------------------------------------------------------------------
\* section_pattern: digit groups separated by dots, an optional "." or ")" with
\* the whitespace after it, and the remainder of the line as "rest".

\* last index of the maximal run of digits that starts at i
DigitsRunEnd(s, i) == Min({ j \in i..Len(s) : s[j] \notin Digit } \cup {Len(s) + 1}) - 1

\* the repeated group never taken: the section is the first digit run only
SectionEnd_one_group(s, e) == e

\* the repeated group (a dot and a digit run), taken greedily, from a section
\* that ends at e
RECURSIVE SectionEnd(_, _)
SectionEnd(s, e) ==
  IF e + 2 <= Len(s) /\ s[e + 1] = "." /\ s[e + 2] \in Digit
  THEN SectionEnd(s, DigitsRunEnd(s, e + 2))
  ELSE e

\* section_pattern.match(s): rest is .* and accepts any remainder, so the greedy
\* choices are never undone and the match succeeds iff s starts with a digit.
section_pattern(s) ==
  IF Len(s) = 0 \/ s[1] \notin Digit
  THEN [matched |-> FALSE, section |-> <<>>, rest |-> <<>>]
  ELSE LET e == SectionEnd(s, DigitsRunEnd(s, 1))
           afterSep == IF e + 1 <= Len(s) /\ s[e + 1] \in {".", ")"}
                       THEN Min({ j \in (e + 2)..Len(s) : s[j] \notin White } \cup {Len(s) + 1})
                       ELSE e + 1
       IN [matched |-> TRUE, section |-> Slice(s, 1, e), rest |-> Slice(s, afterSep, Len(s))]

----------------------------------------------------------------------------
(* DocumentService helpers *)

\* looks_like_title that already rejects a string of exactly 60 characters
looks_like_title_short(s0) ==
  IF Len(s0) = 0 THEN FALSE
  ELSE LET s == Strip(s0)
       IN IF Len(s) >= MaxTitleLen THEN FALSE
          ELSE IF WordCount(s) > MaxTitleWords THEN FALSE
          ELSE IF ~(Len(s) > 0 /\ s[1] \in Upper \cup Digit) THEN FALSE
          ELSE IF s[Len(s)] \in SentenceEnd THEN FALSE
          ELSE TRUE

looks_like_title(s0) ==
  IF Len(s0) = 0 THEN FALSE
  ELSE LET s == Strip(s0)
       IN IF Len(s) > MaxTitleLen THEN FALSE
          ELSE IF WordCount(s) > MaxTitleWords THEN FALSE
          ELSE IF ~(Len(s) > 0 /\ s[1] \in Upper \cup Digit) THEN FALSE
          ELSE IF s[Len(s)] \in SentenceEnd THEN FALSE
          ELSE TRUE

\* the test without lower(): "Citations:" is not recognised
StartsCitationBlock_cased(ln) ==
  LET s == Strip(ln)
  IN /\ Len(s) > 0
     /\ \/ StartsWith(s, Citations)
        \/ StartsWith(s, Http)
        \/ StartsWith(s, Https)
        \/ StartsWith(s, Www)

\* the test strip_trailing_citations applies to one line
StartsCitationBlock(ln) ==
  LET s == Strip(ln)
  IN /\ Len(s) > 0
     /\ \/ StartsWith(StrLower(s), Citations)
        \/ StartsWith(s, Http)
        \/ StartsWith(s, Https)
        \/ StartsWith(s, Www)

\* strip_trailing_citations that removes the first citation line only
strip_trailing_citations_one(lns) ==
  IF Len(lns) = 0 THEN lns
  ELSE LET hits == { i \in 1..Len(lns) : StartsCitationBlock(lns[i]) }
       IN IF hits = {} THEN lns
          ELSE Slice(lns, 1, Min(hits) - 1) \o Slice(lns, Min(hits) + 1, Len(lns))

strip_trailing_citations(lns) ==
  IF Len(lns) = 0 THEN lns
  ELSE LET hits == { i \in 1..Len(lns) : StartsCitationBlock(lns[i]) }
       IN IF hits = {} THEN lns ELSE Slice(lns, 1, Min(hits) - 1)

\* should_join with its first rule only: curr is joined iff it starts in lowercase
should_join_lowercase_only(prev, curr) ==
  IF Len(prev) = 0 \/ Len(curr) = 0 THEN FALSE
  ELSE IF curr[1] \in Lower THEN TRUE
  ELSE FALSE

\* should_join without its test for "citations"
should_join_no_citations(prev, curr) ==
  IF Len(prev) = 0 \/ Len(curr) = 0 THEN FALSE
  ELSE IF curr[1] \in Lower THEN TRUE
  ELSE IF prev[Len(prev)] \notin TerminalPunct THEN TRUE
  ELSE IF curr[1] \notin StrIsDigit THEN TRUE
  ELSE FALSE

should_join(prev, curr) ==
  IF Len(prev) = 0 \/ Len(curr) = 0 THEN FALSE
  ELSE IF curr[1] \in Lower THEN TRUE
  ELSE IF prev[Len(prev)] \notin TerminalPunct THEN TRUE
  ELSE IF curr[1] \notin StrIsDigit /\ ~StartsWith(StrLower(curr), Citations) THEN TRUE
  ELSE FALSE

\* prev.rstrip() + " " + curr.lstrip()
JoinWrapped(prev, curr) == RStrip(prev) \o <<" ">> \o LStrip(curr)

\* " ".join(para_buf).strip()
CloseParagraph(para_buf) == Strip(Join(para_buf, <<" ">>))

\* the loop of flush_section with markers skipped: no paragraph is closed at a marker
RECURSIVE Paragraphs_no_breaks(_, _, _, _)
Paragraphs_no_breaks(content_lines, i, paragraphs, para_buf) ==
  IF i > Len(content_lines)
  THEN IF Len(para_buf) > 0 THEN Append(paragraphs, CloseParagraph(para_buf)) ELSE paragraphs
  ELSE LET ln == content_lines[i]
       IN IF Len(ln) = 0
          THEN IF Len(para_buf) > 0
               THEN Paragraphs_no_breaks(content_lines, i + 1, paragraphs, para_buf)
               ELSE Paragraphs_no_breaks(content_lines, i + 1, paragraphs, para_buf)
          ELSE IF Len(para_buf) > 0 /\ should_join(para_buf[Len(para_buf)], ln)
               THEN Paragraphs_no_breaks(content_lines, i + 1, paragraphs,
                               [para_buf EXCEPT ![Len(para_buf)] = JoinWrapped(para_buf[Len(para_buf)], ln)])
               ELSE Paragraphs_no_breaks(content_lines, i + 1, paragraphs, Append(para_buf, ln))

\* the loop of flush_section over content_lines, from entry i on, with the
\* paragraphs closed so far and the open para_buf
RECURSIVE Paragraphs(_, _, _, _)
Paragraphs(content_lines, i, paragraphs, para_buf) ==
  IF i > Len(content_lines)
  THEN IF Len(para_buf) > 0 THEN Append(paragraphs, CloseParagraph(para_buf)) ELSE paragraphs
  ELSE LET ln == content_lines[i]
       IN IF Len(ln) = 0
          THEN IF Len(para_buf) > 0
               THEN Paragraphs(content_lines, i + 1, Append(paragraphs, CloseParagraph(para_buf)), <<>>)
               ELSE Paragraphs(content_lines, i + 1, paragraphs, para_buf)
          ELSE IF Len(para_buf) > 0 /\ should_join(para_buf[Len(para_buf)], ln)
               THEN Paragraphs(content_lines, i + 1, paragraphs,
                               [para_buf EXCEPT ![Len(para_buf)] = JoinWrapped(para_buf[Len(para_buf)], ln)])
               ELSE Paragraphs(content_lines, i + 1, paragraphs, Append(para_buf, ln))

\* doc_text of flush_section for the lines it was given
DocText(text_lines) ==
  Strip(Join(Paragraphs(strip_trailing_citations(text_lines), 1, <<>>, <<>>), <<NL, NL>>))

\* section_title or ""
TitleOrEmpty(title) == IF title.isNone THEN <<>> ELSE title.val

\* flush_section without its "if doc_text" test
flush_section_always(docs, section, text_lines, src, fname, title) ==
  IF ~section.isNone /\ \E i \in 1..Len(text_lines) : Len(Strip(text_lines[i])) > 0
  THEN Append(docs, [section |-> section.val,
                     section_title |-> TitleOrEmpty(title),
                     source |-> src,
                     file_name |-> fname,
                     text |-> DocText(text_lines)])
  ELSE docs

\* flush_section that needs every entry to be non-blank (all for any)
flush_section_all(docs, section, text_lines, src, fname, title) ==
  IF ~section.isNone /\ \A i \in 1..Len(text_lines) : Len(Strip(text_lines[i])) > 0
  THEN LET doc_text == DocText(text_lines)
       IN IF Len(doc_text) > 0
          THEN Append(docs, [section |-> section.val,
                             section_title |-> TitleOrEmpty(title),
                             source |-> src,
                             file_name |-> fname,
                             text |-> doc_text])
          ELSE docs
  ELSE docs

\* flush_section: curr_docs after the call
flush_section(docs, section, text_lines, src, fname, title) ==
  IF ~section.isNone /\ \E i \in 1..Len(text_lines) : Len(Strip(text_lines[i])) > 0
  THEN LET doc_text == DocText(text_lines)
       IN IF Len(doc_text) > 0
          THEN Append(docs, [section |-> section.val,
                             section_title |-> TitleOrEmpty(title),
                             source |-> src,
                             file_name |-> fname,
                             text |-> doc_text])
          ELSE docs
  ELSE docs

----------------------------------------------------------------------------
(* The docs directory: the input of create_documents *)

\* os.path.join(os.getcwd(), "docs") with its trailing separator
PdfDir == <<"d", "o", "c", "s", "/">>

DotPdf == <<".", "p", "d", "f">>

\* the line texts pages are made of
LineBlank == <<>>

LineTheft == <<"1", ".", " ", "T", "h", "e", "f", "t">>

LineTax == <<"2", ".", " ", "T", "a", "x", " ", "d", "u", "e", ".">>

LineHanging == <<"H", "a", "n", "g", "i", "n", "g", ".">>

LineUrl == <<"w", "w", "w", ".", "x">>

LineCitations == <<"C", "i", "t", "a", "t", "i", "o", "n", "s", ":">>

LinePool == {LineBlank, LineTheft, LineTax, LineHanging, LineUrl, LineCitations}

\* file names, in the order files are added to the directory (not sorted)
NameLetters == <<"m", "a", "z", "b", "y", "c", "x", "d">>

FileName(i) == <<NameLetters[i]>> \o DotPdf

\* size of a generated directory: its pages plus their lines, a file without
\* pages counting as one page
MaxSize == 4

\* a page as the provider hands it over: extract_text() of the page and of its
\* bold-only filter. Either every line of the page is bold or none is.
MkPage(ls, allBold) ==
  [text |-> Join(ls, <<NL>>), bold |-> IF allBold THEN Join(ls, <<NL>>) ELSE <<>>]

\* the pages of at most n lines, each with its size
PagesUpTo(n) ==
  UNION { { [page |-> MkPage(ls, b), size |-> 1 + m] : ls \in [1..m -> LinePool], b \in BOOLEAN } :
          m \in 0..n }

\* PageLists[n]: the page lists of size at most n, each with its size
PageLists[n \in 0..(MaxSize + 1)] ==
  {[pages |-> <<>>, size |-> 0]} \cup
  (IF n = 0 THEN {}
   ELSE UNION { { [pages |-> <<p.page>> \o rest.pages, size |-> p.size + rest.size] :
                    rest \in PageLists[n - p.size] } :
                p \in PagesUpTo(n - 1) })

\* what a file adds to the size of its directory
FileSize(pl) == IF pl.size = 0 THEN 1 ELSE pl.size

\* FileLists[n]: the sequences of files (each its page list) of size at most n
FileLists[n \in 0..(MaxSize + 1)] ==
  {<<>>} \cup
  (IF n = 0 THEN {}
   ELSE UNION { { <<pl.pages>> \o rest : rest \in FileLists[n - FileSize(pl)] } :
                pl \in PageLists[n] })

\* a directory as a function from file name to its pages
AsDir(fileSeq) == [ name \in { FileName(i) : i \in 1..Len(fileSeq) } |->
                      fileSeq[CHOOSE i \in 1..Len(fileSeq) : FileName(i) = name] ]

GeneratedDirs == { AsDir(fs) : fs \in FileLists[MaxSize] }

----------------------------------------------------------------------------
(* Fixture directories *)

LawsPdf == <<"l", "a", "w", "s", ".", "p", "d", "f">>

\* "1. Theft", "Theft is punishable by hanging.", "", "2. Tax Evasion",
\* "Tax evasion is punishable by banishment."
ScenarioText == <<"1", ".", " ", "T", "h", "e", "f", "t", "\n", "T", "h", "e", "f", "t", " ", "i", "s", " ", "p", "u", "n", "i", "s", "h", "a", "b", "l", "e", " ", "b", "y", " ", "h", "a", "n", "g", "i", "n", "g", ".", "\n", "\n", "2", ".", " ", "T", "a", "x", " ", "E", "v", "a", "s", "i", "o", "n", "\n", "T", "a", "x", " ", "e", "v", "a", "s", "i", "o", "n", " ", "i", "s", " ", "p", "u", "n", "i", "s", "h", "a", "b", "l", "e", " ", "b", "y", " ", "b", "a", "n", "i", "s", "h", "m", "e", "n", "t", ".">>

\* laws.pdf: one page holding the scenario's five lines, nothing bold
ScenarioDir == (LawsPdf :> <<[text |-> ScenarioText, bold |-> <<>>]>>)

\* "4. Citations: a", "Hanging.": a heading whose rest starts a citation block
CitedHeadingText == <<"4", ".", " ", "C", "i", "t", "a", "t", "i", "o", "n", "s", ":", " ", "a", "\n", "H", "a", "n", "g", "i", "n", "g", ".">>

CitedHeadingDir == (LawsPdf :> <<[text |-> CitedHeadingText, bold |-> <<>>]>>)

\* two files: a.pdf ("1. Theft", "Hanging.", "2. Tax due.", every line bold) sets
\* a title and ends with an open section; laws.pdf ("Hanging.", "2. Tax due.",
\* "www.x", nothing bold) comes after it in sorted order
TitledText == <<"1", ".", " ", "T", "h", "e", "f", "t", "\n", "H", "a", "n", "g", "i", "n", "g", ".", "\n", "2", ".", " ", "T", "a", "x", " ", "d", "u", "e", ".">>

UntitledText == <<"H", "a", "n", "g", "i", "n", "g", ".", "\n", "2", ".", " ", "T", "a", "x", " ", "d", "u", "e", ".", "\n", "w", "w", "w", ".", "x">>

CrossFileDir ==
  (LawsPdf :> <<[text |-> UntitledText, bold |-> <<>>]>>) @@
  (FileName(2) :> <<[text |-> TitledText, bold |-> TitledText]>>)

\* laws.pdf with two pages: "1. Theft", "Hanging." with nothing bold, then
\* "1. Theft", "2. Tax due." with the line "1. Theft" bold
LaterBoldFirstPage == <<"1", ".", " ", "T", "h", "e", "f", "t", "\n", "H", "a", "n", "g", "i", "n", "g", ".">>

LaterBoldSecondPage == <<"1", ".", " ", "T", "h", "e", "f", "t", "\n", "2", ".", " ", "T", "a", "x", " ", "d", "u", "e", ".">>

LaterBoldDir ==
  (LawsPdf :> <<[text |-> LaterBoldFirstPage, bold |-> <<>>],
                [text |-> LaterBoldSecondPage, bold |-> LineTheft]>>)

\* laws.pdf with headings whose numbers have several groups: "1.2.3) Scope",
\* "Hanging.", "10.1.Short", "  3.1 Term", "4..5 x", "007.10 Rule"
DottedText == <<"1", ".", "2", ".", "3", ")", " ", "S", "c", "o", "p", "e", "\n", "H", "a", "n", "g", "i", "n", "g", ".", "\n", "1", "0", ".", "1", ".", "S", "h", "o", "r", "t", "\n", " ", " ", "3", ".", "1", " ", "T", "e", "r", "m", "\n", "4", ".", ".", "5", " ", "x", "\n", "0", "0", "7", ".", "1", "0", " ", "R", "u", "l", "e">>

DottedDir == (LawsPdf :> <<[text |-> DottedText, bold |-> <<>>]>>)

\* laws.pdf with a line that starts with a superscript digit and an indented
\* line: "1. Theft", "Hanging.", "(superscript two) note.", "Next line.", "",
\* "  Indented.", "Citations:"
FootnoteText == <<"1", ".", " ", "T", "h", "e", "f", "t", "\n", "H", "a", "n", "g", "i", "n", "g", ".", "\n", SuperTwo, " ", "n", "o", "t", "e", ".", "\n", "N", "e", "x", "t", " ", "l", "i", "n", "e", ".", "\n", "\n", " ", " ", "I", "n", "d", "e", "n", "t", "e", "d", ".", "\n", "C", "i", "t", "a", "t", "i", "o", "n", "s", ":">>

FootnoteDir == (LawsPdf :> <<[text |-> FootnoteText, bold |-> <<>>]>>)

FixtureDirs == {ScenarioDir, CitedHeadingDir, CrossFileDir, LaterBoldDir, DottedDir, FootnoteDir}

----------------------------------------------------------------------------
(* State *)

VARIABLES
  docs_dir,            \* the directory: file name -> pages (never changes)
  pdf_paths,           \* sorted(glob(...))
  file_idx,            \* position of the loop over pdf_paths
  filename,
  curr_docs,
  current_section,     \* None or the section number
  section_title,       \* None or the title
  current_text_lines,
  bold_candidates,
  pages_text,
  page_idx,            \* position of the loop over pdf.pages
  lines,
  source,
  line_idx,            \* position of the loop over lines
  pc,                  \* "files", "pages", "scan", "done", "raised"
  err,                 \* the exception create_documents ended in, if any
  open_heading,        \* history: index in lines of the open section's heading, 0 if none
  doc_origin,          \* history: per document, its file and its heading's index
  probe                \* a direct call of one helper: its arguments and its result

\* the state of create_documents
scanVars == <<docs_dir, pdf_paths, file_idx, filename, curr_docs, current_section, section_title,
              current_text_lines, bold_candidates, pages_text, page_idx, lines, source, line_idx,
              pc, err, open_heading, doc_origin>>

vars == <<scanVars, probe>>

\* glob("*.pdf"): the names that end in .pdf and do not start with a dot
Glob(dir) == { PdfDir \o name : name \in { nm \in DOMAIN dir : EndsWith(nm, DotPdf) /\ nm[1] # "." } }

InitWith(dir) ==
  /\ docs_dir = dir
  /\ pdf_paths = Sorted(Glob(dir))
  /\ file_idx = 1
  /\ filename = <<>>
  /\ curr_docs = <<>>
  /\ current_section = None
  /\ section_title = None
  /\ current_text_lines = <<>>
  /\ bold_candidates = {}
  /\ pages_text = <<>>
  /\ page_idx = 1
  /\ lines = <<>>
  /\ source = <<>>
  /\ line_idx = 1
  /\ pc = "files"
  /\ err = "none"
  /\ open_heading = 0
  /\ doc_origin = <<>>

\* no helper is being called directly
NoProbe == [fn |-> "none", prev |-> <<>>, curr |-> <<>>, done |-> FALSE, result |-> FALSE]

Init ==
  /\ \E dir \in GeneratedDirs \cup FixtureDirs : InitWith(dir)
  /\ probe = NoProbe

----------------------------------------------------------------------------
(* create_documents, step by step *)

\* pdf.pages of the file being processed
CurPages == docs_dir[filename]

\* the bold candidates one page adds: the stripped, non-empty lines of its
\* bold-only text
BoldLinesOf(bold_text) ==
  { Strip(bl) : bl \in { b \in Range(SplitLines(bold_text)) : Len(Strip(b)) > 0 } }

\* the per-file initial values of the section state
FreshSection(old) == None

\* the title survives into the next file (its reset is left out)
FreshTitle_kept(old) == old

FreshTitle(old) == None

FreshTextLines(old) == <<>>

FreshBold(old) == {}

\* source: the first line if it is no section heading, else the file name's root
SourceLabel(lns, fname) ==
  IF ~section_pattern(Strip(lns[1])).matched THEN Strip(lns[1]) ELSE SplitextRoot(fname)

\* IsTitle with "or" for "and", as the comment above the test words it
IsTitle_or(stripped_line, rest, bold) == stripped_line \in bold \/ looks_like_title(rest)

\* whether a matched heading's rest is taken as the section title
IsTitle(stripped_line, rest, bold) == stripped_line \in bold /\ looks_like_title(rest)

\* current_text_lines after a body line is merged or appended
AddBodyLine(text_lines, curr_line) ==
  IF Len(text_lines) > 0
  THEN LET prev == text_lines[Len(text_lines)]
       IN IF should_join(prev, curr_line)
          THEN [text_lines EXCEPT ![Len(text_lines)] = JoinWrapped(prev, curr_line)]
          ELSE Append(text_lines, curr_line)
  ELSE Append(text_lines, curr_line)

\* the history entry of a flush: one more origin iff one more document
OriginAfter(docs_after) ==
  IF Len(docs_after) > Len(curr_docs)
  THEN Append(doc_origin, [file |-> file_idx, heading |-> open_heading])
  ELSE doc_origin

\* for pdf_path in pdf_paths: the per-file reset, then pdfplumber.open succeeds
OpenFile ==
  /\ pc = "files"
  /\ file_idx <= Len(pdf_paths)
  /\ filename' = Basename(pdf_paths[file_idx])
  /\ current_section' = FreshSection(current_section)
  /\ section_title' = FreshTitle(section_title)
  /\ current_text_lines' = FreshTextLines(current_text_lines)
  /\ bold_candidates' = FreshBold(bold_candidates)
  /\ pages_text' = <<>>
  /\ page_idx' = 1
  /\ open_heading' = 0
  /\ pc' = "pages"
  /\ UNCHANGED <<probe, docs_dir, pdf_paths, file_idx, curr_docs, lines, source, line_idx, err, doc_origin>>

\* the same, but the provider cannot read the file: its exception leaves
\* create_documents
OpenFails ==
  /\ pc = "files"
  /\ file_idx <= Len(pdf_paths)
  /\ filename' = Basename(pdf_paths[file_idx])
  /\ current_section' = FreshSection(current_section)
  /\ section_title' = FreshTitle(section_title)
  /\ current_text_lines' = FreshTextLines(current_text_lines)
  /\ bold_candidates' = FreshBold(bold_candidates)
  /\ open_heading' = 0
  /\ pc' = "raised"
  /\ err' = "ProviderError"
  /\ UNCHANGED <<probe, docs_dir, pdf_paths, file_idx, curr_docs, pages_text, page_idx, lines, source,
                 line_idx, doc_origin>>

\* one page iteration that sets bold_candidates to the page's bold lines instead
\* of adding them
ReadPage_replaces ==
  /\ pc = "pages"
  /\ page_idx <= Len(CurPages)
  /\ pages_text' = Append(pages_text, CurPages[page_idx].text)
  /\ bold_candidates' = BoldLinesOf(CurPages[page_idx].bold)
  /\ page_idx' = page_idx + 1
  /\ UNCHANGED <<probe, docs_dir, pdf_paths, file_idx, filename, curr_docs, current_section,
                 section_title, current_text_lines, lines, source, line_idx, pc, err,
                 open_heading, doc_origin>>

\* for page in pdf.pages: one iteration
ReadPage ==
  /\ pc = "pages"
  /\ page_idx <= Len(CurPages)
  /\ pages_text' = Append(pages_text, CurPages[page_idx].text)
  /\ bold_candidates' = bold_candidates \cup BoldLinesOf(CurPages[page_idx].bold)
  /\ page_idx' = page_idx + 1
  /\ UNCHANGED <<probe, docs_dir, pdf_paths, file_idx, filename, curr_docs, current_section,
                 section_title, current_text_lines, lines, source, line_idx, pc, err,
                 open_heading, doc_origin>>

\* after the pages: full_text, lines and the source label; lines[0] of an empty
\* list raises IndexError
SplitAndLabel ==
  /\ pc = "pages"
  /\ page_idx > Len(CurPages)
  /\ lines' = SplitLines(Join(pages_text, <<NL>>))
  /\ IF Len(lines') = 0
     THEN /\ pc' = "raised"
          /\ err' = "IndexError"
          /\ UNCHANGED <<source, line_idx>>
     ELSE /\ source' = SourceLabel(lines', filename)
          /\ line_idx' = 1
          /\ pc' = "scan"
          /\ UNCHANGED err
  /\ UNCHANGED <<probe, docs_dir, pdf_paths, file_idx, filename, curr_docs, current_section,
                 section_title, current_text_lines, bold_candidates, pages_text, page_idx,
                 open_heading, doc_origin>>

\* for line in lines: a line that is blank after stripping
ScanBlank ==
  /\ pc = "scan"
  /\ line_idx <= Len(lines)
  /\ Len(Strip(RStrip(lines[line_idx]))) = 0
  /\ current_text_lines' = IF ~current_section.isNone
                           THEN Append(current_text_lines, <<>>)
                           ELSE current_text_lines
  /\ line_idx' = line_idx + 1
  /\ UNCHANGED <<probe, docs_dir, pdf_paths, file_idx, filename, curr_docs, current_section,
                 section_title, bold_candidates, pages_text, page_idx, lines, source, pc, err,
                 open_heading, doc_origin>>

\* a heading line whose else branch appends to the buffer instead of replacing it
ScanHeading_keeps ==
  /\ pc = "scan"
  /\ line_idx <= Len(lines)
  /\ LET stripped == Strip(RStrip(lines[line_idx]))
         m == section_pattern(stripped)
         rest == Strip(m.rest)
         docs_after == flush_section(curr_docs, current_section, current_text_lines, source,
                                     filename, section_title)
     IN /\ Len(stripped) > 0
        /\ m.matched
        /\ curr_docs' = docs_after
        /\ doc_origin' = OriginAfter(docs_after)
        /\ current_section' = Some(m.section)
        /\ IF IsTitle(stripped, rest, bold_candidates)
           THEN /\ section_title' = Some(rest)
                /\ current_text_lines' = <<>>
           ELSE /\ current_text_lines' = current_text_lines \o (IF Len(rest) > 0 THEN <<rest>> ELSE <<>>)
                /\ UNCHANGED section_title
  /\ open_heading' = line_idx
  /\ line_idx' = line_idx + 1
  /\ UNCHANGED <<probe, docs_dir, pdf_paths, file_idx, filename, bold_candidates, pages_text, page_idx,
                 lines, source, pc, err>>

\* for line in lines: a line that section_pattern matches
ScanHeading ==
  /\ pc = "scan"
  /\ line_idx <= Len(lines)
  /\ LET stripped == Strip(RStrip(lines[line_idx]))
         m == section_pattern(stripped)
         rest == Strip(m.rest)
         docs_after == flush_section(curr_docs, current_section, current_text_lines, source,
                                     filename, section_title)
     IN /\ Len(stripped) > 0
        /\ m.matched
        /\ curr_docs' = docs_after
        /\ doc_origin' = OriginAfter(docs_after)
        /\ current_section' = Some(m.section)
        /\ IF IsTitle(stripped, rest, bold_candidates)
           THEN /\ section_title' = Some(rest)
                /\ current_text_lines' = <<>>
           ELSE /\ current_text_lines' = IF Len(rest) > 0 THEN <<rest>> ELSE <<>>
                /\ UNCHANGED section_title
  /\ open_heading' = line_idx
  /\ line_idx' = line_idx + 1
  /\ UNCHANGED <<probe, docs_dir, pdf_paths, file_idx, filename, bold_candidates, pages_text, page_idx,
                 lines, source, pc, err>>

\* for line in lines: any other line
ScanBody ==
  /\ pc = "scan"
  /\ line_idx <= Len(lines)
  /\ LET curr_line == RStrip(lines[line_idx])
     IN /\ Len(Strip(curr_line)) > 0
        /\ ~section_pattern(Strip(curr_line)).matched
        /\ current_text_lines' = IF ~current_section.isNone
                                 THEN AddBodyLine(current_text_lines, curr_line)
                                 ELSE current_text_lines
  /\ line_idx' = line_idx + 1
  /\ UNCHANGED <<probe, docs_dir, pdf_paths, file_idx, filename, curr_docs, current_section,
                 section_title, bold_candidates, pages_text, page_idx, lines, source, pc, err,
                 open_heading, doc_origin>>

\* after the last line: flush the last section, go on to the next file
EndOfFile ==
  /\ pc = "scan"
  /\ line_idx > Len(lines)
  /\ LET docs_after == flush_section(curr_docs, current_section, current_text_lines, source,
                                     filename, section_title)
     IN /\ curr_docs' = docs_after
        /\ doc_origin' = OriginAfter(docs_after)
  /\ file_idx' = file_idx + 1
  /\ pc' = "files"
  /\ UNCHANGED <<probe, docs_dir, pdf_paths, filename, current_section, section_title,
                 current_text_lines, bold_candidates, pages_text, page_idx, lines, source,
                 line_idx, err, open_heading>>

\* return curr_docs
Return ==
  /\ pc = "files"
  /\ file_idx > Len(pdf_paths)
  /\ pc' = "done"
  /\ UNCHANGED <<probe, docs_dir, pdf_paths, file_idx, filename, curr_docs, current_section,
                 section_title, current_text_lines, bold_candidates, pages_text, page_idx,
                 lines, source, line_idx, err, open_heading, doc_origin>>

Next ==
  \/ OpenFile
  \/ OpenFails
  \/ ReadPage
  \/ SplitAndLabel
  \/ ScanBlank
  \/ ScanHeading
  \/ ScanBody
  \/ EndOfFile
  \/ Return

Spec == Init /\ [][Next]_vars

----------------------------------------------------------------------------
(* What the input says about a file and about a document's section *)

\* the pages of the f-th file of pdf_paths
PagesOfFile(f) == docs_dir[Basename(pdf_paths[f])]

\* the line sequence of the f-th file: its page texts joined and split
LinesOfFile(f) == SplitLines(Join([ i \in 1..Len(PagesOfFile(f)) |-> PagesOfFile(f)[i].text ], <<NL>>))

\* the bold lines of all pages of the f-th file
BoldSetOfFile(f) == UNION { BoldLinesOf(PagesOfFile(f)[i].bold) : i \in 1..Len(PagesOfFile(f)) }

\* the stripped heading line of the section document j came from
HeadingOfDoc(j) == Strip(LinesOfFile(doc_origin[j].file)[doc_origin[j].heading])

\* the stripped rest of that heading
RestOfDoc(j) == Strip(section_pattern(HeadingOfDoc(j)).rest)

IsPrefix(p, s) == StartsWith(s, p)

\* the last flush of a file has just run (EndOfFile), for the section, if any,
\* that current_section and current_text_lines still describe
JustFlushedAtEof == pc = "files" /\ file_idx > 1

----------------------------------------------------------------------------
(* C1 *)

\* the body leaves nothing after citation stripping: only markers remain
BodyVanishes(text_lines) ==
  \A i \in 1..Len(strip_trailing_citations(text_lines)) :
    Len(strip_trailing_citations(text_lines)[i]) = 0

\* C1: every document in the output has a text that is non-empty after
\* trimming; and a section whose body is only empty-string markers, or is
\* entirely removed by citation stripping, has produced no document when its
\* flush has run.
C1_NonEmptyText ==
  /\ \A j \in 1..Len(curr_docs) : Len(Strip(curr_docs[j].text)) > 0
  /\ (JustFlushedAtEof /\ open_heading > 0 /\ BodyVanishes(current_text_lines))
       => ~\E j \in 1..Len(doc_origin) :
             doc_origin[j] = [file |-> file_idx - 1, heading |-> open_heading]

\* a file ended on a section whose non-empty body was removed whole by citation
\* stripping, after an earlier section of the file produced a document
C1_Witness ==
  /\ JustFlushedAtEof
  /\ open_heading > 0
  /\ \E i \in 1..Len(current_text_lines) : Len(Strip(current_text_lines[i])) > 0
  /\ BodyVanishes(current_text_lines)
  /\ Len(curr_docs) > 0
  /\ doc_origin[Len(doc_origin)].file = file_idx - 1

----------------------------------------------------------------------------
(* C2 *)

\* the title the heading of document j sets by itself
OwnTitle(j) ==
  IF HeadingOfDoc(j) \in BoldSetOfFile(doc_origin[j].file) /\ looks_like_title(RestOfDoc(j))
  THEN RestOfDoc(j)
  ELSE <<>>

\* C2: the section_title of every document is decided by the document's own
\* heading line: its rest if the whole line is bold and the rest looks like a
\* title, the empty string otherwise.
C2_TitleFromOwnHeading ==
  \A j \in 1..Len(curr_docs) : curr_docs[j].section_title = OwnTitle(j)

----------------------------------------------------------------------------
(* C3 *)

ScenarioDocs(text1, text2) ==
  << [section |-> <<"1">>, section_title |-> <<>>, source |-> <<"l", "a", "w", "s">>,
      file_name |-> LawsPdf, text |-> text1],
     [section |-> <<"2">>, section_title |-> <<>>, source |-> <<"l", "a", "w", "s">>,
      file_name |-> LawsPdf, text |-> text2] >>

TextHanging == <<"T", "h", "e", "f", "t", " ", "i", "s", " ", "p", "u", "n", "i", "s", "h", "a", "b", "l", "e", " ", "b", "y", " ", "h", "a", "n", "g", "i", "n", "g", ".">>

TextBanishment == <<"T", "a", "x", " ", "e", "v", "a", "s", "i", "o", "n", " ", "i", "s", " ", "p", "u", "n", "i", "s", "h", "a", "b", "l", "e", " ", "b", "y", " ", "b", "a", "n", "i", "s", "h", "m", "e", "n", "t", ".">>

----------------------------------------------------------------------------
(* C4 *)

\* no line of lns matches the heading pattern
NoHeadingIn(lns) == \A i \in 1..Len(lns) : ~section_pattern(Strip(RStrip(lns[i]))).matched

\* C4: a file none of whose lines matches the heading pattern (the empty line
\* sequence included) is processed to its end without an error of its own and
\* contributes no document.
C4_NoHeadingNoDocs ==
  \A f \in 1..Len(pdf_paths) :
    NoHeadingIn(LinesOfFile(f)) =>
      /\ \A j \in 1..Len(doc_origin) : doc_origin[j].file # f
      /\ ~(pc = "raised" /\ err = "IndexError" /\ file_idx = f)

----------------------------------------------------------------------------
(* C5 *)

\* C5: create_documents ends in no error but a failure of the provider, and a
\* file whose first line is blank gets the file name without extension as its
\* source label.
C5_OnlyProviderErrors ==
  /\ pc = "raised" => err = "ProviderError"
  /\ (pc = "scan" /\ Len(Strip(lines[1])) = 0) => source = SplitextRoot(filename)

----------------------------------------------------------------------------
(* C6 *)

\* the source label of the f-th file as C6 states it: the first non-blank line,
\* verbatim, or the file name's root if that line matches the heading pattern
FirstNonBlankSource(f) ==
  LET lns == LinesOfFile(f)
      nonBlank == { i \in 1..Len(lns) : Len(Strip(lns[i])) > 0 }
  IN IF nonBlank = {} THEN SplitextRoot(Basename(pdf_paths[f]))
     ELSE IF section_pattern(Strip(lns[Min(nonBlank)])).matched
          THEN SplitextRoot(Basename(pdf_paths[f]))
          ELSE lns[Min(nonBlank)]

\* C6: every document carries the source label computed from the first
\* non-blank line of its file (or the file name's root when that line is a
\* heading), and the file's name with extension as file_name.
C6_SourceFromFirstNonBlank ==
  \A j \in 1..Len(curr_docs) :
    /\ curr_docs[j].source = FirstNonBlankSource(doc_origin[j].file)
    /\ curr_docs[j].file_name = Basename(pdf_paths[doc_origin[j].file])

----------------------------------------------------------------------------
(* C7 *)

\* index of the first heading line after line h, Len(lns)+1 if there is none
NextHeading(lns, h) ==
  Min({ k \in (h + 1)..Len(lns) : section_pattern(Strip(RStrip(lns[k]))).matched } \cup {Len(lns) + 1})

\* the body lines of the section of heading h of file f as the scan meets them,
\* unjoined: the heading's rest (if it seeds the body), then each line up to the
\* next heading, right-stripped (a blank line is the empty-string marker)
RawBody(f, h) ==
  LET lns == LinesOfFile(f)
      heading == Strip(RStrip(lns[h]))
      rest == Strip(section_pattern(heading).rest)
      seed == IF IsTitle(heading, rest, BoldSetOfFile(f)) \/ Len(rest) = 0 THEN <<>> ELSE <<rest>>
  IN seed \o [ k \in 1..(NextHeading(lns, h) - h - 1) |-> RStrip(lns[h + k]) ]

\* current_text_lines after the scan has taken the entries of raw from i on
RECURSIVE ScanFold(_, _, _)
ScanFold(raw, i, text_lines) ==
  IF i > Len(raw) THEN text_lines
  ELSE ScanFold(raw, i + 1,
                IF Len(Strip(raw[i])) = 0 THEN Append(text_lines, <<>>)
                ELSE AddBodyLine(text_lines, raw[i]))

\* C7: if a body line of a section starts a citation block, the text emitted
\* for the section holds nothing of that line or of the lines after it: it is
\* the text of the section cut before that line.
C7_CitationsCutBeforeJoining ==
  \A j \in 1..Len(curr_docs) :
    LET raw == RawBody(doc_origin[j].file, doc_origin[j].heading)
        cites == { i \in 1..Len(raw) : StartsCitationBlock(raw[i]) }
    IN cites # {} =>
         curr_docs[j].text = DocText(ScanFold(Slice(raw, 1, Min(cites) - 1), 1, <<>>))

----------------------------------------------------------------------------
(* C8 *)

\* the stripped rest of the open section's heading
OpenRest == Strip(section_pattern(Strip(RStrip(lines[open_heading]))).rest)

----------------------------------------------------------------------------
(* C9 *)

\* one iteration of the loop over lines, on the scan state
\* st = [docs, section, title, text_lines]
LineStep(st, line, bold, src, fname) ==
  LET curr_line == RStrip(line)
      stripped == Strip(curr_line)
      m == section_pattern(stripped)
      rest == Strip(m.rest)
  IN IF Len(stripped) = 0
     THEN [st EXCEPT !.text_lines = IF ~st.section.isNone THEN Append(@, <<>>) ELSE @]
     ELSE IF m.matched
     THEN [docs |-> flush_section(st.docs, st.section, st.text_lines, src, fname, st.title),
           section |-> Some(m.section),
           title |-> IF IsTitle(stripped, rest, bold) THEN Some(rest) ELSE st.title,
           text_lines |-> IF IsTitle(stripped, rest, bold) \/ Len(rest) = 0 THEN <<>> ELSE <<rest>>]
     ELSE [st EXCEPT !.text_lines = IF ~st.section.isNone THEN AddBodyLine(@, curr_line) ELSE @]

RECURSIVE LinesFold(_, _, _, _, _, _)
LinesFold(st, lns, i, bold, src, fname) ==
  IF i > Len(lns) THEN st
  ELSE LinesFold(LineStep(st, lns[i], bold, src, fname), lns, i + 1, bold, src, fname)

\* the documents the f-th file gives when it is the only file processed: the
\* scan from the initial section state, then the flush at end of file
AloneDocs(f) ==
  LET fname == Basename(pdf_paths[f])
      lns == LinesOfFile(f)
      src == SourceLabel(lns, fname)
      st == LinesFold([docs |-> <<>>, section |-> None, title |-> None, text_lines |-> <<>>],
                      lns, 1, BoldSetOfFile(f), src, fname)
  IN flush_section(st.docs, st.section, st.text_lines, src, fname, st.title)

\* the outputs of files 1..n alone, concatenated in that order
RECURSIVE ConcatAlone(_)
ConcatAlone(n) == IF n = 0 THEN <<>> ELSE ConcatAlone(n - 1) \o AloneDocs(n)

\* C9: once the first n files of the sorted paths are processed, the output is
\* the concatenation, in that order, of what each gives alone (so at the return
\* it is the concatenation over all files); and every file starts with no open
\* section, no title, an empty body buffer and an empty bold set.
C9_FilesIndependent ==
  /\ pc \in {"files", "done"} => curr_docs = ConcatAlone(file_idx - 1)
  /\ (pc = "pages" /\ page_idx = 1) =>
       /\ current_section = None
       /\ section_title = None
       /\ current_text_lines = <<>>
       /\ bold_candidates = {}

\* create_documents has returned for two files: the first set a title and gave
\* documents with it, the second gave a document without a title
C9_Witness ==
  /\ pc = "done"
  /\ Len(pdf_paths) = 2
  /\ \E j \in 1..Len(curr_docs) : doc_origin[j].file = 1 /\ Len(curr_docs[j].section_title) > 0
  /\ \E j \in 1..Len(curr_docs) : doc_origin[j].file = 2 /\ Len(curr_docs[j].section_title) = 0

----------------------------------------------------------------------------
(* should_join called directly *)

\* the longest generated argument
MaxProbeLen == 2

ProbeAlphabet == {"a", "B", "7", ".", "?", " "}

StrFinalDot == <<"T", "h", "i", "s", " ", "i", "s", " ", "f", "i", "n", "a", "l", ".">>

StrFinal == <<"T", "h", "i", "s", " ", "i", "s", " ", "f", "i", "n", "a", "l">>

StrNextRuleNumbered == <<"5", ".", " ", "N", "e", "x", "t", " ", "r", "u", "l", "e">>

StrCitationsBelow == <<"C", "i", "t", "a", "t", "i", "o", "n", "s", ":", " ", "s", "e", "e", " ", "b", "e", "l", "o", "w">>

StrAndBinding == <<"a", "n", "d", " ", "b", "i", "n", "d", "i", "n", "g", ".">>

StrNextRule == <<"N", "e", "x", "t", " ", "r", "u", "l", "e", " ", "a", "p", "p", "l", "i", "e", "s">>

StrLawIsClear == <<"T", "h", "e", " ", "l", "a", "w", " ", "i", "s", " ", "c", "l", "e", "a", "r", ".">>

StrCitationsLower == <<"c", "i", "t", "a", "t", "i", "o", "n", "s">>

StrCitationsUpper == <<"C", "I", "T", "A", "T", "I", "O", "N", "S">>

StrIndentedCited == <<" ", "C", "i", "t", "e", "d">>

StrQuoted == <<"H", "e", " ", "s", "a", "i", "d", " ", "\"", "n", "o", "\"">>

StrApostrophe == <<"i", "t", "'", "s", "'">>

StrBang == <<"R", "e", "a", "l", "l", "y", "!">>

StrFootnote == <<SuperTwo, " ", "n", "o", "t", "e", ".">>

ProbeStrings ==
  {StrFinalDot, StrFinal, StrNextRuleNumbered, StrCitationsBelow, StrAndBinding, StrNextRule,
   StrLawIsClear, StrCitationsLower, StrCitationsUpper, StrIndentedCited, StrQuoted,
   StrApostrophe, StrBang, StrFootnote}
  \cup UNION { [1..n -> ProbeAlphabet] : n \in 0..MaxProbeLen }

\* a directory without files
EmptyDir == [ name \in {} |-> <<>> ]

InitJoin ==
  /\ InitWith(EmptyDir)
  /\ \E p \in ProbeStrings, c \in ProbeStrings :
       probe = [fn |-> "should_join", prev |-> p, curr |-> c, done |-> FALSE, result |-> FALSE]

\* self.should_join(prev, curr)
CallShouldJoin ==
  /\ probe.fn = "should_join"
  /\ ~probe.done
  /\ probe' = [probe EXCEPT !.done = TRUE, !.result = should_join(probe.prev, probe.curr)]
  /\ UNCHANGED scanVars

NextJoin == CallShouldJoin

SpecJoin == InitJoin /\ [][NextJoin]_vars

----------------------------------------------------------------------------
(* C10 *)

\* the decision list of C10 as one formula
JoinDecisionList(prev, curr) ==
  /\ Len(prev) > 0
  /\ Len(curr) > 0
  /\ \/ curr[1] \in Lower
     \/ prev[Len(prev)] \notin {".", "!", "?", "\"", "'"}
     \/ curr[1] \notin StrIsDigit /\ ~StartsWith(StrLower(curr), StrCitationsLower)

\* C10: should_join agrees with the decision list on every pair; an
\* uppercase-starting curr that does not start with "citations" is joined after
\* a prev that ends in a period; ("This is final.", "5. Next rule") and ("This is
\* final.", "Citations: see below") are not joined.
C10_ShouldJoinDecisionList ==
  probe.done =>
    /\ probe.result = JoinDecisionList(probe.prev, probe.curr)
    /\ (/\ Len(probe.prev) > 0 /\ probe.prev[Len(probe.prev)] = "."
        /\ Len(probe.curr) > 0 /\ probe.curr[1] \in Upper
        /\ ~StartsWith(StrLower(probe.curr), StrCitationsLower)) => probe.result
    /\ (probe.prev = StrFinalDot /\ probe.curr \in {StrNextRuleNumbered, StrCitationsBelow})
         => ~probe.result

\* should_join("This is final.", "Citations: see below") has returned False
C10_Witness ==
  /\ probe.done
  /\ probe.prev = StrFinalDot
  /\ probe.curr = StrCitationsBelow
  /\ ~probe.result

----------------------------------------------------------------------------
(* looks_like_title called directly, next to the scan *)

TitleSixty == <<"U", "n", "l", "a", "w", "f", "u", "l", " ", "T", "a", "k", "i", "n", "g", " ", "O", "f", " ", "P", "r", "o", "p", "e", "r", "t", "y", " ", "B", "e", "l", "o", "n", "g", "i", "n", "g", " ", "T", "o", " ", "A", "n", "o", "t", "h", "e", "r", " ", "H", "o", "u", "s", "e", "h", "o", "l", "d", "e", "r">>

TitleStrings ==
  {TitleSixty,
   \* "Tax Evasion"
   <<"T", "a", "x", " ", "E", "v", "a", "s", "i", "o", "n">>,
   \* "  Tax Evasion \t"
   <<" ", " ", "T", "a", "x", " ", "E", "v", "a", "s", "i", "o", "n", " ", "\t">>,
   \* "  "
   <<" ", " ">>,
   \* "tax evasion"
   <<"t", "a", "x", " ", "e", "v", "a", "s", "i", "o", "n">>,
   \* "7 Kingdoms"
   <<"7", " ", "K", "i", "n", "g", "d", "o", "m", "s">>,
   \* "Theft is punishable."
   <<"T", "h", "e", "f", "t", " ", "i", "s", " ", "p", "u", "n", "i", "s", "h", "a", "b", "l", "e", ".">>,
   \* "Definitions:"
   <<"D", "e", "f", "i", "n", "i", "t", "i", "o", "n", "s", ":">>,
   \* "Scope;"
   <<"S", "c", "o", "p", "e", ";">>,
   \* "Scope. "
   <<"S", "c", "o", "p", "e", ".", " ">>,
   \* "Who may judge?"
   <<"W", "h", "o", " ", "m", "a", "y", " ", "j", "u", "d", "g", "e", "?">>,
   \* "Unlawful Taking Of Property Belonging To Another Householders"
   <<"U", "n", "l", "a", "w", "f", "u", "l", " ", "T", "a", "k", "i", "n", "g", " ", "O", "f", " ", "P", "r", "o", "p", "e", "r", "t", "y", " ", "B", "e", "l", "o", "n", "g", "i", "n", "g", " ", "T", "o", " ", "A", "n", "o", "t", "h", "e", "r", " ", "H", "o", "u", "s", "e", "h", "o", "l", "d", "e", "r", "s">>,
   \* " Unlawful Taking Of Property Belonging To Another Householder "
   <<" ", "U", "n", "l", "a", "w", "f", "u", "l", " ", "T", "a", "k", "i", "n", "g", " ", "O", "f", " ", "P", "r", "o", "p", "e", "r", "t", "y", " ", "B", "e", "l", "o", "n", "g", "i", "n", "g", " ", "T", "o", " ", "A", "n", "o", "t", "h", "e", "r", " ", "H", "o", "u", "s", "e", "h", "o", "l", "d", "e", "r", " ">>,
   \* "A B C D E F G H"
   <<"A", " ", "B", " ", "C", " ", "D", " ", "E", " ", "F", " ", "G", " ", "H">>,
   \* "A B C D E F G H I"
   <<"A", " ", "B", " ", "C", " ", "D", " ", "E", " ", "F", " ", "G", " ", "H", " ", "I">>,
   \* "A  B\tC D E F G H"
   <<"A", " ", " ", "B", "\t", "C", " ", "D", " ", "E", " ", "F", " ", "G", " ", "H">>,
   \* "AAAAAAAAAAAAAAAAAAAAAAAAAAAAAAAAAAAAAAAAAAAAAAAAAAAAAAAAAAAAA"
   <<"A", "A", "A", "A", "A", "A", "A", "A", "A", "A", "A", "A", "A", "A", "A", "A", "A", "A", "A", "A", "A", "A", "A", "A", "A", "A", "A", "A", "A", "A", "A", "A", "A", "A", "A", "A", "A", "A", "A", "A", "A", "A", "A", "A", "A", "A", "A", "A", "A", "A", "A", "A", "A", "A", "A", "A", "A", "A", "A", "A", "A">>,
   \* "On The Unlawful Taking Of Goods Belonging To Others By Force."
   <<"O", "n", " ", "T", "h", "e", " ", "U", "n", "l", "a", "w", "f", "u", "l", " ", "T", "a", "k", "i", "n", "g", " ", "O", "f", " ", "G", "o", "o", "d", "s", " ", "B", "e", "l", "o", "n", "g", "i", "n", "g", " ", "T", "o", " ", "O", "t", "h", "e", "r", "s", " ", "B", "y", " ", "F", "o", "r", "c", "e", ".">>}
  \cup ProbeStrings

InitTitle ==
  /\ InitWith(EmptyDir)
  /\ \E s \in TitleStrings :
       probe = [fn |-> "looks_like_title", prev |-> s, curr |-> <<>>, done |-> FALSE, result |-> FALSE]

\* self.looks_like_title(s)
CallLooksLikeTitle ==
  /\ probe.fn = "looks_like_title"
  /\ ~probe.done
  /\ probe' = [probe EXCEPT !.done = TRUE, !.result = looks_like_title(probe.prev)]
  /\ UNCHANGED scanVars

NextTitle == Next \/ CallLooksLikeTitle

SpecTitle == (Init \/ InitTitle) /\ [][NextTitle]_vars

----------------------------------------------------------------------------
(* C11 *)

\* the whitespace-separated words of t, counted by where they start
WordStarts(t) == { i \in 1..Len(t) : t[i] \notin White /\ (i = 1 \/ t[i - 1] \in White) }

\* the five conditions of C11 on the trimmed string
TitleConditions(s0) ==
  LET t == Strip(s0)
  IN /\ Len(t) > 0
     /\ Len(t) <= MaxTitleLen
     /\ Cardinality(WordStarts(t)) <= MaxTitleWords
     /\ t[1] \in Upper \cup Digit
     /\ t[Len(t)] \notin {".", ":", ";"}

----------------------------------------------------------------------------
(* strip_trailing_citations called directly *)

\* the longest generated line sequence
MaxStripLen == 3

StripLegalText == <<"S", "o", "m", "e", " ", "l", "e", "g", "a", "l", " ", "t", "e", "x", "t", ".">>

StripSeeAlso == <<"S", "e", "e", " ", "a", "l", "s", "o", " ", "L", "a", "w", " ", "4">>

StripLines ==
  {LineBlank, LineCitations, LineUrl, StripLegalText, StripSeeAlso,
   \* "  CITATIONS"
   <<" ", " ", "C", "I", "T", "A", "T", "I", "O", "N", "S">>,
   \* "http://a"
   <<"h", "t", "t", "p", ":", "/", "/", "a">>,
   \* "https://a"
   <<"h", "t", "t", "p", "s", ":", "/", "/", "a">>,
   \* "HTTP://A"
   <<"H", "T", "T", "P", ":", "/", "/", "A">>,
   \* "citation"
   <<"c", "i", "t", "a", "t", "i", "o", "n">>,
   \* "See www.x"
   <<"S", "e", "e", " ", "w", "w", "w", ".", "x">>,
   \* " "
   <<" ">>}

\* the example of C16
StripExample == <<StripLegalText, LineBlank, LineCitations, StripSeeAlso>>

StripArgs == {StripExample} \cup UNION { [1..n -> StripLines] : n \in 0..MaxStripLen }

InitStrip ==
  /\ InitWith(EmptyDir)
  /\ \E a \in StripArgs :
       probe = [fn |-> "strip_trailing_citations", arg |-> a, once |-> <<>>, twice |-> <<>>, calls |-> 0]

\* self.strip_trailing_citations(lines), then the same call on its result
CallStrip ==
  /\ probe.fn = "strip_trailing_citations"
  /\ probe.calls < 2
  /\ probe' = IF probe.calls = 0
              THEN [probe EXCEPT !.calls = 1, !.once = strip_trailing_citations(probe.arg)]
              ELSE [probe EXCEPT !.calls = 2, !.twice = strip_trailing_citations(probe.once)]
  /\ UNCHANGED scanVars

NextStrip == CallStrip

SpecStrip == InitStrip /\ [][NextStrip]_vars

----------------------------------------------------------------------------
(* C12 *)

\* C12: strip_trailing_citations is idempotent: applying it to its own result
\* returns that result, for every line sequence, empty-string markers included.
C12_StripIdempotent ==
  probe.calls = 2 => probe.twice = probe.once

\* both calls are done on a sequence with a marker and a citation line, and
\* the first call has cut something
C12_Witness ==
  /\ probe.calls = 2
  /\ \E i \in 1..Len(probe.arg) : probe.arg[i] = LineBlank
  /\ \E i \in 1..Len(probe.arg) : probe.arg[i] = LineCitations
  /\ Len(probe.once) > 0
  /\ Len(probe.once) < Len(probe.arg)

----------------------------------------------------------------------------
(* C16 *)

\* a line that starts the citations block, in the words of C16
CitationStart(ln) ==
  LET t == Strip(ln)
  IN \/ IsPrefix(Citations, StrLower(t))
     \/ \E p \in {Http, Https, Www} : IsPrefix(p, t)

\* C16: strip_trailing_citations returns the longest prefix that ends strictly
\* before the first line whose trimmed form starts with "citations" (in any
\* case), "http://", "https://" or "www."; markers before that line are kept;
\* without such a line the input is returned unchanged; ["Some legal text.",
\* "", "Citations:", "See also Law 4"] gives ["Some legal text.", ""].
C16_StripLongestPrefix ==
  probe.calls >= 1 =>
    LET n == Len(probe.once)
    IN /\ IsPrefix(probe.once, probe.arg)
       /\ \A i \in 1..n : ~CitationStart(probe.arg[i])
       /\ n < Len(probe.arg) => CitationStart(probe.arg[n + 1])
       /\ (\A i \in 1..Len(probe.arg) : ~CitationStart(probe.arg[i])) => probe.once = probe.arg
       /\ probe.arg = StripExample => probe.once = <<StripLegalText, LineBlank>>

\* the example of C16 has been stripped to its first two entries
C16_Witness ==
  /\ probe.calls >= 1
  /\ probe.arg = StripExample
  /\ probe.once = <<StripLegalText, LineBlank>>

----------------------------------------------------------------------------
(* C13 *)

\* line k of lns is a heading line
IsHeadingLine(lns, k) == section_pattern(Strip(RStrip(lns[k]))).matched

\* the heading lines among the first n lines of lns
HeadingsUpTo(lns, n) == { k \in 1..Min({n, Len(lns)}) : IsHeadingLine(lns, k) }

\* the documents that came from file f
DocsOfFile(f) == { j \in 1..Len(doc_origin) : doc_origin[j].file = f }

\* the text the section of heading h of file f assembles
AssembledText(f, h) == DocText(ScanFold(RawBody(f, h), 1, <<>>))

\* the section of heading h of file f has a document
Emitted(f, h) == \E j \in 1..Len(doc_origin) : doc_origin[j] = [file |-> f, heading |-> h]

\* the files whose scan is over
FilesDone == 1..Min({file_idx - 1, Len(pdf_paths)})

\* C13: each heading line opens exactly one section and each section is
\* flushed exactly once, at the next heading before the new section opens or at
\* the end of the file: the documents of a file are never more than the heading
\* lines scanned so far, no section is emitted twice, none with a non-empty
\* assembled text is lost, and the section values of a file's documents are a
\* subsequence of its heading numbers in line order.
C13_OneFlushPerSection ==
  /\ Len(doc_origin) = Len(curr_docs)
  /\ \A j \in 1..Len(curr_docs) :
       LET lns == LinesOfFile(doc_origin[j].file)
           h == doc_origin[j].heading
       IN /\ h \in HeadingsUpTo(lns, Len(lns))
          /\ curr_docs[j].section = section_pattern(Strip(RStrip(lns[h]))).section
  /\ \A j, k \in 1..Len(doc_origin) :
       j < k => \/ doc_origin[j].file < doc_origin[k].file
                \/ /\ doc_origin[j].file = doc_origin[k].file
                   /\ doc_origin[j].heading < doc_origin[k].heading
  /\ pc = "scan" =>
       LET scanned == HeadingsUpTo(lines, line_idx - 1)
       IN /\ open_heading = Max(scanned \cup {0})
          /\ current_section.isNone <=> scanned = {}
          /\ Cardinality(DocsOfFile(file_idx)) <= Cardinality(scanned)
          /\ \A j \in DocsOfFile(file_idx) : doc_origin[j].heading < open_heading
          /\ \A h \in scanned :
               (h < open_heading /\ Len(AssembledText(file_idx, h)) > 0) => Emitted(file_idx, h)
  /\ \A f \in FilesDone :
       LET lns == LinesOfFile(f)
       IN /\ Cardinality(DocsOfFile(f)) <= Cardinality(HeadingsUpTo(lns, Len(lns)))
          /\ \A h \in HeadingsUpTo(lns, Len(lns)) :
               Len(AssembledText(f, h)) > 0 => Emitted(f, h)

\* a file with three heading lines is over: the first section was flushed at
\* the second heading, the second has no text and no document, the third was
\* flushed at the end of the file
C13_Witness ==
  /\ JustFlushedAtEof
  /\ LET f == file_idx - 1
         hs == HeadingsUpTo(LinesOfFile(f), Len(LinesOfFile(f)))
     IN /\ Cardinality(hs) = 3
        /\ Cardinality(DocsOfFile(f)) = 2
        /\ \E h \in hs : Len(AssembledText(f, h)) = 0 /\ ~Emitted(f, h)
        /\ Emitted(f, open_heading)

----------------------------------------------------------------------------
(* C14 *)

\* what the section of heading h of file f has been given when the scan has
\* taken lines h..n of the file and none of the lines after h is a heading:
\* the heading's rest (if it is not the title), then the lines h+1..n
BodySoFar(f, h, n) ==
  LET lns == LinesOfFile(f)
      heading == Strip(RStrip(lns[h]))
      rest == Strip(section_pattern(heading).rest)
      seed == IF IsTitle(heading, rest, BoldSetOfFile(f)) \/ Len(rest) = 0 THEN <<>> ELSE <<rest>>
  IN seed \o [ k \in 1..(n - h) |-> RStrip(lns[h + k]) ]

\* C14: the body of a section is built only from its heading's rest (when the
\* rest is not the title) and the non-heading lines between its heading and
\* the next heading or the end of the file; lines before the first heading of
\* a file change no state and are in no document; after a heading the buffer
\* holds nothing of the previous section's lines.
C14_BodyFromOwnLines ==
  /\ (pc = "scan" /\ open_heading = 0) =>
       /\ current_section = None
       /\ section_title = None
       /\ current_text_lines = <<>>
       /\ DocsOfFile(file_idx) = {}
  /\ (pc = "scan" /\ open_heading > 0) =>
       /\ current_text_lines = ScanFold(BodySoFar(file_idx, open_heading, line_idx - 1), 1, <<>>)
       /\ line_idx = open_heading + 1 =>
            current_text_lines = BodySoFar(file_idx, open_heading, open_heading)
  /\ \A j \in 1..Len(curr_docs) :
       doc_origin[j].heading > 0 =>
         curr_docs[j].text = AssembledText(doc_origin[j].file, doc_origin[j].heading)

\* a heading has just been processed in a file that starts with a line before
\* its first heading and whose previous section had a body and gave a document:
\* the buffer holds the new heading's rest and nothing else
C14_Witness ==
  /\ pc = "scan"
  /\ open_heading > 2
  /\ line_idx = open_heading + 1
  /\ ~IsHeadingLine(lines, 1)
  /\ Len(Strip(lines[1])) > 0
  /\ Cardinality(DocsOfFile(file_idx)) = 1
  /\ current_text_lines = <<OpenRest>>

----------------------------------------------------------------------------
(* flush_section called directly, next to the scan *)

\* the longest generated buffer
MaxFlushLen == 3

FlushAndMore == <<"a", "n", "d", " ", "m", "o", "r", "e">>

FlushIndented == <<" ", " ", "I", "n", "d", "e", "n", "t", "e", "d", " ", "n", "e", "x", "t", ".">>

\* buffer entries as the scan leaves them: the marker, or a line without
\* trailing whitespace that is not blank
FlushLines ==
  {LineBlank, LineCitations, StripLegalText, StripSeeAlso, FlushAndMore, FlushIndented,
   \* "5 apples"
   <<"5", " ", "a", "p", "p", "l", "e", "s">>,
   \* "Text without end"
   <<"T", "e", "x", "t", " ", "w", "i", "t", "h", "o", "u", "t", " ", "e", "n", "d">>}

\* two runs of two entries each, two markers between them
FlushTwoRuns == <<StripLegalText, FlushAndMore, LineBlank, LineBlank, FlushIndented, StripSeeAlso>>

FlushArgs == {FlushTwoRuns} \cup UNION { [1..n -> FlushLines] : n \in 0..MaxFlushLen }

InitFlush ==
  /\ InitWith(EmptyDir)
  /\ \E a \in FlushArgs :
       probe = [fn |-> "flush_section", arg |-> a, docs |-> <<>>, done |-> FALSE]

\* self.flush_section([], "1", lines, "laws", "laws.pdf", None)
CallFlush ==
  /\ probe.fn = "flush_section"
  /\ ~probe.done
  /\ probe' = [probe EXCEPT !.done = TRUE,
                            !.docs = flush_section(<<>>, Some(<<"1">>), probe.arg,
                                                   SplitextRoot(LawsPdf), LawsPdf, None)]
  /\ UNCHANGED scanVars

NextFlush == Next \/ CallFlush

SpecFlush == (Init \/ InitFlush) /\ [][NextFlush]_vars

----------------------------------------------------------------------------
(* C15 *)

\* where the maximal runs of non-empty entries of c start
RunStarts(c) == { i \in 1..Len(c) : Len(c[i]) > 0 /\ (i = 1 \/ Len(c[i - 1]) = 0) }

\* the last entry of the run that starts at i
RunEnd(c, i) == Min({ k \in i..Len(c) : k = Len(c) \/ Len(c[k + 1]) = 0 })

\* the start of the n-th run
NthRun(c, n) == CHOOSE i \in RunStarts(c) : Cardinality({ x \in RunStarts(c) : x < i }) = n - 1

\* the whitespace-separated words of s, in order
RECURSIVE WordsOf(_)
WordsOf(s) ==
  LET t == LStrip(s)
  IN IF Len(t) = 0 THEN <<>>
     ELSE LET e == Min({ k \in 1..Len(t) : t[k] \in White } \cup {Len(t) + 1})
          IN <<SubSeq(t, 1, e - 1)>> \o WordsOf(SubSeq(t, e, Len(t)))

\* the words of the entries of the run that starts at i
RECURSIVE RunWords(_, _, _)
RunWords(c, i, last) == IF i > last THEN <<>> ELSE WordsOf(c[i]) \o RunWords(c, i + 1, last)

\* C15: in the line sequence left by citation stripping, each maximal run of
\* non-empty entries becomes exactly one paragraph; a run of one or more
\* markers gives exactly one paragraph break and never an empty paragraph; a
\* line after a marker is never merged into the line before it; the text is
\* the paragraphs in order, separated by exactly one blank line, without
\* leading or trailing whitespace.
C15_ParagraphAssembly ==
  /\ (probe.fn = "flush_section" /\ probe.done) =>
       LET c == strip_trailing_citations(probe.arg)
           n == Cardinality(RunStarts(c))
       IN IF n = 0 THEN probe.docs = <<>>
          ELSE /\ Len(probe.docs) = 1
               /\ LET text == probe.docs[1].text
                      tl == SplitLines(text)
                  IN /\ text = Strip(text)
                     /\ Len(tl) = 2 * n - 1
                     /\ \A k \in 1..n :
                          /\ Len(tl[2 * k - 1]) > 0
                          /\ tl[2 * k - 1] = Strip(tl[2 * k - 1])
                          /\ WordsOf(tl[2 * k - 1]) = RunWords(c, NthRun(c, k), RunEnd(c, NthRun(c, k)))
                     /\ \A k \in 1..(n - 1) : tl[2 * k] = <<>>
  /\ (/\ pc = "scan"
      /\ open_heading > 0
      /\ line_idx - 2 > open_heading
      /\ Len(Strip(lines[line_idx - 2])) = 0
      /\ Len(Strip(lines[line_idx - 1])) > 0) =>
       /\ Len(current_text_lines) >= 2
       /\ current_text_lines[Len(current_text_lines)] = RStrip(lines[line_idx - 1])
       /\ current_text_lines[Len(current_text_lines) - 1] = <<>>

\* two runs of two entries with two markers between them gave two paragraphs
\* and one blank line
C15_Witness ==
  /\ probe.fn = "flush_section"
  /\ probe.done
  /\ probe.arg = FlushTwoRuns
  /\ Len(probe.docs) = 1
  /\ Len(SplitLines(probe.docs[1].text)) = 3

----------------------------------------------------------------------------
(* C17 *)

\* the bold lines of the pages read so far
BoldOfPagesRead ==
  UNION { BoldLinesOf(CurPages[i].bold) : i \in 1..(page_idx - 1) }

\* the two phases: bold_candidates grows page by page, is complete when the
\* scan starts and stays as it is during the scan
TwoPhases ==
  /\ pc = "pages" => bold_candidates = BoldOfPagesRead
  /\ pc = "scan" =>
       /\ page_idx = Len(CurPages) + 1
       /\ bold_candidates = BoldSetOfFile(file_idx)

\* C17: the bold lines of a file are collected from all of its pages before
\* its first line is scanned and are not modified during the scan; hence a
\* heading is given a title whenever its trimmed line is in the bold-only text
\* of any page of the file, a later page included.
C17_TitleWheneverBold ==
  /\ TwoPhases
  /\ \A j \in 1..Len(curr_docs) :
       HeadingOfDoc(j) \in BoldSetOfFile(doc_origin[j].file)
         => curr_docs[j].section_title = RestOfDoc(j)

\* C17, amended: ... a heading is given its rest as title whenever its trimmed
\* line is in the bold-only text of any page of the file, a later page
\* included, and the rest passes looks_like_title.
C17_TitleWheneverBoldAndTitleLike ==
  /\ TwoPhases
  /\ (pc = "scan" /\ open_heading > 0
      /\ Strip(RStrip(lines[open_heading])) \in BoldSetOfFile(file_idx)
      /\ looks_like_title(OpenRest))
       => section_title = Some(OpenRest)
  /\ \A j \in 1..Len(curr_docs) :
       (HeadingOfDoc(j) \in BoldSetOfFile(doc_origin[j].file) /\ looks_like_title(RestOfDoc(j)))
         => curr_docs[j].section_title = RestOfDoc(j)

\* a document whose heading is on the first page, where nothing is bold, has
\* the title its line gets from the bold text of the second page
C17_Witness ==
  /\ docs_dir = LaterBoldDir
  /\ Len(curr_docs) > 0
  /\ doc_origin[1].heading = 1
  /\ ~(HeadingOfDoc(1) \in BoldLinesOf(PagesOfFile(1)[1].bold))
  /\ HeadingOfDoc(1) \in BoldLinesOf(PagesOfFile(1)[2].bold)
  /\ curr_docs[1].section_title = RestOfDoc(1)
  /\ Len(curr_docs[1].section_title) > 0

----------------------------------------------------------------------------
(* section_pattern matched directly, next to the scan *)

\* the longest generated line
MaxSectionLen == 3

SectionAlphabet == {"1", "0", ".", ")", " ", "a"}

SectionStrings ==
  {
   \* "1.2.3) Scope"
   <<"1", ".", "2", ".", "3", ")", " ", "S", "c", "o", "p", "e">>,
   \* "10.1.Short"
   <<"1", "0", ".", "1", ".", "S", "h", "o", "r", "t">>,
   \* "4..5 x"
   <<"4", ".", ".", "5", " ", "x">>,
   \* "1.2."
   <<"1", ".", "2", ".">>,
   \* "007.10 Rule"
   <<"0", "0", "7", ".", "1", "0", " ", "R", "u", "l", "e">>,
   \* "12"
   <<"1", "2">>,
   \* ".5 x"
   <<".", "5", " ", "x">>,
   \* "1 . 2"
   <<"1", " ", ".", " ", "2">>,
   \* "  3.1 Term"
   <<" ", " ", "3", ".", "1", " ", "T", "e", "r", "m">>}
  \cup UNION { [1..n -> SectionAlphabet] : n \in 0..MaxSectionLen }

InitSection ==
  /\ InitWith(EmptyDir)
  /\ \E s \in SectionStrings :
       probe = [fn |-> "section_pattern", prev |-> s, curr |-> <<>>, done |-> FALSE, result |-> FALSE,
                section |-> <<>>]

\* section_pattern.match(curr_line.strip()) and its group "section"
CallSectionPattern ==
  /\ probe.fn = "section_pattern"
  /\ ~probe.done
  /\ LET m == section_pattern(Strip(probe.prev))
     IN probe' = [probe EXCEPT !.done = TRUE, !.result = m.matched, !.section = m.section]
  /\ UNCHANGED scanVars

NextSection == Next \/ CallSectionPattern

SpecSection == (Init \/ InitSection) /\ [][NextSection]_vars

----------------------------------------------------------------------------
(* C18 *)

\* x is a non-empty dot-separated sequence of digit groups
SectionNumber(x) ==
  /\ Len(x) > 0
  /\ \A i \in 1..Len(x) : x[i] \in Digit \cup {"."}
  /\ x[1] \in Digit
  /\ x[Len(x)] \in Digit
  /\ \A i \in 1..(Len(x) - 1) : ~(x[i] = "." /\ x[i + 1] = ".")

\* the lengths of the prefixes of t that are section numbers
NumberPrefixes(t) == { n \in 1..Len(t) : SectionNumber(SubSeq(t, 1, n)) }

\* x is the longest prefix of t that is a section number
MaximalNumberPrefix(x, t) ==
  /\ NumberPrefixes(t) # {}
  /\ x = SubSeq(t, 1, Max(NumberPrefixes(t)))

\* C18: the section value of every emitted document is a non-empty
\* dot-separated sequence of digit groups (no leading, trailing or doubled dot,
\* no separator character, no whitespace) and is exactly the maximal such
\* prefix of its heading line's trimmed text, stored as matched.
C18_SectionIsMaximalNumber ==
  /\ (probe.fn = "section_pattern" /\ probe.done) =>
       /\ probe.result <=> NumberPrefixes(Strip(probe.prev)) # {}
       /\ probe.result => MaximalNumberPrefix(probe.section, Strip(probe.prev))
  /\ \A j \in 1..Len(curr_docs) :
       /\ SectionNumber(curr_docs[j].section)
       /\ MaximalNumberPrefix(curr_docs[j].section, HeadingOfDoc(j))

\* the documents of the file with the dotted headings: "1.2.3", "10.1", "3.1",
\* "4" (before a doubled dot) and "007.10" (zeros kept)
C18_Witness ==
  /\ docs_dir = DottedDir
  /\ Len(curr_docs) = 5
  /\ curr_docs[1].section = <<"1", ".", "2", ".", "3">>
  /\ curr_docs[2].section = <<"1", "0", ".", "1">>
  /\ curr_docs[3].section = <<"3", ".", "1">>
  /\ curr_docs[4].section = <<"4">>
  /\ curr_docs[5].section = <<"0", "0", "7", ".", "1", "0">>

----------------------------------------------------------------------------
(* C19 *)

\* the positions i where entries i and i+1 of buf are both non-empty
AdjacentPairs(buf) == { i \in 1..(Len(buf) - 1) : Len(buf[i]) > 0 /\ Len(buf[i + 1]) > 0 }

\* b's trimmed form starts with "citations", in any case
StartsCitations(b) == IsPrefix(Citations, StrLower(Strip(b)))

\* b starts with a character that should_join takes for a digit (str.isdigit)
\* and section_pattern does not
StartsOddDigit(b) == Len(b) > 0 /\ b[1] \in StrIsDigit \ Digit

\* the trimmed non-empty entries of c, in order
TrimmedEntries(c) ==
  LET kept == SelectSeq(c, LAMBDA e : Len(e) > 0)
  IN [ k \in 1..Len(kept) |-> Strip(kept[k]) ]

\* the runs of adjacent non-empty entries of c, each joined by single spaces
\* and trimmed
JoinedRuns(c) ==
  [ k \in 1..Cardinality(RunStarts(c)) |->
      Strip(Join(SubSeq(c, NthRun(c, k), RunEnd(c, NthRun(c, k))), <<" ">>)) ]

\* the buffer the section of document j had when it was flushed, after
\* citation stripping
ContentOfDoc(j) ==
  strip_trailing_citations(ScanFold(RawBody(doc_origin[j].file, doc_origin[j].heading), 1, <<>>))

\* C19: for every two adjacent non-empty entries a, b of the section buffer,
\* should_join(a, b) is false and b's trimmed form starts with "citations";
\* so after citation stripping no two adjacent entries are both non-empty, the
\* join branch of flush_section is never taken, and every paragraph of every
\* emitted document is exactly one buffer entry of the scan.
C19_OneEntryPerParagraph ==
  /\ pc = "scan" =>
       /\ \A i \in AdjacentPairs(current_text_lines) :
            /\ ~should_join(current_text_lines[i], current_text_lines[i + 1])
            /\ StartsCitations(current_text_lines[i + 1])
       /\ AdjacentPairs(strip_trailing_citations(current_text_lines)) = {}
  /\ \A j \in 1..Len(curr_docs) :
       curr_docs[j].text = Join(TrimmedEntries(ContentOfDoc(j)), <<NL, NL>>)

\* C19, amended: for every two adjacent non-empty entries a, b of the section
\* buffer, should_join(a, b) is false and b starts with "citations" (trimmed,
\* in any case) or with a character that str.isdigit accepts and the section
\* pattern does not; after citation stripping only the second kind is left, the
\* join branch of flush_section is never taken, and every paragraph of every
\* emitted document is one run of adjacent non-empty buffer entries joined by
\* single spaces.
C19_OneRunPerParagraph ==
  /\ pc = "scan" =>
       /\ \A i \in AdjacentPairs(current_text_lines) :
            /\ ~should_join(current_text_lines[i], current_text_lines[i + 1])
            /\ \/ StartsCitations(current_text_lines[i + 1])
               \/ StartsOddDigit(current_text_lines[i + 1])
       /\ \A i \in AdjacentPairs(strip_trailing_citations(current_text_lines)) :
            StartsOddDigit(strip_trailing_citations(current_text_lines)[i + 1])
  /\ \A j \in 1..Len(curr_docs) :
       /\ \A i \in AdjacentPairs(ContentOfDoc(j)) :
            ~should_join(ContentOfDoc(j)[i], ContentOfDoc(j)[i + 1])
       /\ curr_docs[j].text = Join(JoinedRuns(ContentOfDoc(j)), <<NL, NL>>)

\* the file with the footnote line is over: its buffer kept "Citations:" as
\* an entry of its own behind a non-empty entry, and the document has two
\* paragraphs, the first made of two buffer entries
C19_Witness ==
  /\ docs_dir = FootnoteDir
  /\ JustFlushedAtEof
  /\ Len(current_text_lines) = 5
  /\ AdjacentPairs(current_text_lines) = {1, 4}
  /\ current_text_lines[5] = LineCitations
  /\ StartsOddDigit(current_text_lines[2])
  /\ Len(curr_docs) = 1
  /\ Len(SplitLines(curr_docs[1].text)) = 3

====
